---- MODULE Spec2Model ----
(***************************************************************************)
(* Tool Stock Control (tool_stock_app_main.py): the stock ledger, the      *)
(* purchase-order tables, the Telegram notifications and the daily 08:00   *)
(* scheduler, as a state machine.  One action per Streamlit handler (a     *)
(* button click reruns the script, so a handler is the query it starts     *)
(* with, its guard and its store call) and per scheduler step.             *)
(*                                                                         *)
(* The Supabase side (the views v_tool_balance_with_po and v_po_tracking,  *)
(* the column defaults of po_items and the stored procedure                *)
(* receive_po_item) is not part of the Python source; it is modelled from  *)
(* the specification document.  A table insert is modelled as the plain    *)
(* insert the source calls: it stores the row, or the store call fails     *)
(* and nothing is stored.  Quantities are whole numbers (step=1.0).        *)
(***************************************************************************)
EXTENDS Integers, Sequences, FiniteSets, TLC

\* ---------------------------------------------------------------- bounds
MaxTxn      == 2    \* rows of tool_stock_txn
MaxQty      == 1    \* largest quantity typed into "Qty OUT", "Qty IN", "Receive Qty"
MaxRequest  == 2    \* largest quantity typed into "Request Qty"
MaxPO       == 2    \* rows of po_header
MaxItems    == 2    \* rows of po_items
MaxSessions == 3    \* browser sessions
MaxTime     == 1    \* clock ticks: 2d is day d before 08:00, 2d+1 is day d from 08:00 on

\* ---------------------------------------------------------------- data
\* tool codes are numbered so that "order by tool_code" is the order of the numbers
Tools      == {1, 2, 3}
Qtys       == 0..MaxQty
RequestQtys == 0..MaxRequest
PoNumbers  == {"", "PO-1"}
Sessions   == 1..MaxSessions
NoItem     == 0
NoTool     == 0

VARIABLES
    tool_master,        \* table tool_master: tool_code -> [is_active, min_stock]
    tool_stock_txn,     \* table tool_stock_txn, in insertion order
    po_header,          \* table po_header, row id = position
    po_items,           \* table po_items, row id = position
    telegram_set,       \* TELEGRAM_TOKEN and TELEGRAM_CHAT_ID are both set
    scheduler_started,  \* the sessions whose st.session_state holds "scheduler_started"
    jobs,               \* schedule.jobs of the module-wide default scheduler: next_run of each job
    now,                \* the clock
    ui,                 \* the last script run or scheduler job and how it ended:
                        \* [op, shown, below_min]
    sent,               \* the messages the last step handed to requests.post
    warned,             \* the last step showed "Telegram send failed"
    in_total,           \* history: per tool, the quantities recorded as IN so far
    out_total,          \* history: per tool, the quantities recorded as OUT so far
    scans_run,          \* history: per 08:00 trigger, the runs of send_daily_below_min
    scanning            \* the runs of send_daily_below_min that have queried the view and
                        \* not yet composed and sent their report: [job, shown, below]

vars == <<tool_master, tool_stock_txn, po_header, po_items, telegram_set,
          scheduler_started, jobs, now, ui, sent, warned, in_total, out_total, scans_run,
          scanning>>

store == <<tool_master, tool_stock_txn, po_header, po_items>>
sched == <<scheduler_started, jobs, now, scans_run, scanning>>
hist  == <<in_total, out_total>>

\* ---------------------------------------------------------------- helpers
RECURSIVE SumQty(_, _, _)
SumQty(txns, tool, dir) ==
    IF txns = <<>> THEN 0
    ELSE (IF Head(txns).tool_code = tool /\ Head(txns).direction = dir
          THEN Head(txns).qty ELSE 0) + SumQty(Tail(txns), tool, dir)

\* on_hand of v_tool_balance_with_po: sum(IN.qty) - sum(OUT.qty) of the tool's rows
OnHandOf(txns, tool) == SumQty(txns, tool, "IN") - SumQty(txns, tool, "OUT")
on_hand(tool) == OnHandOf(tool_stock_txn, tool)

\* is_below_min of v_tool_balance_with_po
is_below_min(tool) == on_hand(tool) < tool_master[tool].min_stock

\* status of a PO line as a function of (received, requested)
ItemStatus(received, requested) ==
    IF received >= requested THEN "Received"
    ELSE IF received > 0 THEN "Partially Received"
    ELSE "Pending"

\* get_master: the active tools, ordered by tool_code
get_master == {t \in Tools : tool_master[t].is_active}

\* the rows of v_tool_balance_with_po: one per active tool
v_tool_balance_with_po == get_master

\* the rows of v_po_tracking with their item_status
v_po_tracking(status) == {i \in DOMAIN po_items : po_items[i].status = status}

Msg(kind, tool, qty, below) == [kind |-> kind, tool_code |-> tool, qty |-> qty, below |-> below]

\* send_telegram: nothing is posted unless token and chat id are set
send_telegram(msg) == IF telegram_set THEN <<msg>> ELSE <<>>

\* below_min is the "Below MIN" metric of the dashboard, 0 where no metric is shown
Ui(op, shown) == [op |-> op, shown |-> shown, below_min |-> 0]

\* ---------------------------------------------------------------- Init
\* the master data is maintained outside the application: catalogs of three tools,
\* with two, one and no active tool
CatalogTwo == [t \in Tools |->
                 [is_active |-> t # 3, min_stock |-> IF t = 1 THEN 2 ELSE 0]]
CatalogOne == [t \in Tools |->
                 [is_active |-> t = 1, min_stock |-> IF t = 1 THEN 2 ELSE 0]]

CatalogNone == [t \in Tools |-> [is_active |-> FALSE, min_stock |-> 0]]

Init ==
    /\ tool_master \in {CatalogNone, CatalogOne, CatalogTwo}
    /\ tool_stock_txn = <<>>
    /\ po_header = <<>>
    /\ po_items = <<>>
    /\ telegram_set \in BOOLEAN
    /\ scheduler_started = {}
    /\ jobs = <<>>
    /\ now = 0
    /\ ui = Ui("start", "none")
    /\ sent = <<>>
    /\ warned = FALSE
    /\ in_total = [t \in Tools |-> 0]
    /\ out_total = [t \in Tools |-> 0]
    /\ scans_run = [k \in 0..(MaxTime + 2) |-> 0]
    /\ scanning = {}

\* ---------------------------------------------------------------- stock movements
\* an insert that replaces the rows of the table by the new row
record_txn_replace(payload) == tool_stock_txn' = <<payload>>

\* an insert that waits while a daily scan holds a lock on the ledger
record_txn_locked(payload) ==
    /\ scanning = {}
    /\ tool_stock_txn' = Append(tool_stock_txn, payload)

\* record_txn: one insert into tool_stock_txn
record_txn(payload) == tool_stock_txn' = Append(tool_stock_txn, payload)

\* a payload whose direction is always "IN" (the OUT form copied from the IN form)
Payload_always_in(tool, dir, qty) ==
    [tool_code |-> tool, direction |-> "IN", qty |-> qty, po_item_id |-> NoItem]

Payload(tool, dir, qty) ==
    [tool_code |-> tool, direction |-> dir, qty |-> qty, po_item_id |-> NoItem]

\* the guard without its quantity test
MovementValid_any_qty(tool, qty) == tool # NoTool

\* a guard that also refuses a quantity above the stock on hand
MovementValid_in_stock(tool, qty) == tool # NoTool /\ qty > 0 /\ qty <= on_hand(tool)

\* "if tool_code and qty > 0"
MovementValid(tool, qty) == tool # NoTool /\ qty > 0

\* a handler in which a failure of requests.post is not caught: it ends in the exception
SaveMovement_post_raises(dir, tool, qty, store_ok, post_ok) ==
    /\ scheduler_started # {}
    /\ get_master # {}
    /\ tool \in get_master
    /\ IF MovementValid(tool, qty)
       THEN IF store_ok
            THEN /\ Len(tool_stock_txn) < MaxTxn
                 /\ record_txn(Payload(tool, dir, qty))
                 /\ in_total' = IF dir = "IN"
                                THEN [in_total EXCEPT ![tool] = @ + qty] ELSE in_total
                 /\ out_total' = IF dir = "OUT"
                                 THEN [out_total EXCEPT ![tool] = @ + qty] ELSE out_total
                 /\ ui' = Ui(dir, IF telegram_set /\ ~post_ok THEN "exception" ELSE "success")
                 /\ sent' = send_telegram(Msg(dir, tool, qty, <<>>))
                 /\ warned' = FALSE
            ELSE /\ ui' = Ui(dir, "exception")
                 /\ sent' = <<>>
                 /\ warned' = FALSE
                 /\ UNCHANGED <<tool_stock_txn, hist>>
       ELSE /\ ui' = Ui(dir, "none")
            /\ sent' = <<>>
            /\ warned' = FALSE
            /\ UNCHANGED <<tool_stock_txn, hist>>
    /\ UNCHANGED <<tool_master, po_header, po_items, telegram_set, sched>>

\* a handler that catches the error of the insert and carries on
SaveMovement_store_swallowed(dir, tool, qty, store_ok, post_ok) ==
    /\ scheduler_started # {}
    /\ get_master # {}
    /\ tool \in get_master
    /\ IF MovementValid(tool, qty)
       THEN /\ IF store_ok
               THEN /\ Len(tool_stock_txn) < MaxTxn
                    /\ record_txn(Payload(tool, dir, qty))
                    /\ in_total' = IF dir = "IN"
                                   THEN [in_total EXCEPT ![tool] = @ + qty] ELSE in_total
                    /\ out_total' = IF dir = "OUT"
                                    THEN [out_total EXCEPT ![tool] = @ + qty] ELSE out_total
               ELSE UNCHANGED <<tool_stock_txn, hist>>
            /\ ui' = Ui(dir, "success")
            /\ sent' = send_telegram(Msg(dir, tool, qty, <<>>))
            /\ warned' = (telegram_set /\ ~post_ok)
       ELSE /\ ui' = Ui(dir, "none")
            /\ sent' = <<>>
            /\ warned' = FALSE
            /\ UNCHANGED <<tool_stock_txn, hist>>
    /\ UNCHANGED <<tool_master, po_header, po_items, telegram_set, sched>>

\* The "Save OUT" / "Save IN" button.  store_ok: the insert returned; post_ok: requests.post returned.
SaveMovement(dir, tool, qty, store_ok, post_ok) ==
    /\ scheduler_started # {}
    /\ get_master # {}
    /\ tool \in get_master
    /\ IF MovementValid(tool, qty)
       THEN IF store_ok
            THEN /\ Len(tool_stock_txn) < MaxTxn
                 /\ record_txn(Payload(tool, dir, qty))
                 /\ in_total' = IF dir = "IN"
                                THEN [in_total EXCEPT ![tool] = @ + qty] ELSE in_total
                 /\ out_total' = IF dir = "OUT"
                                 THEN [out_total EXCEPT ![tool] = @ + qty] ELSE out_total
                 /\ ui' = Ui(dir, "success")
                 /\ sent' = send_telegram(Msg(dir, tool, qty, <<>>))
                 /\ warned' = (telegram_set /\ ~post_ok)
            ELSE /\ ui' = Ui(dir, "exception")
                 /\ sent' = <<>>
                 /\ warned' = FALSE
                 /\ UNCHANGED <<tool_stock_txn, hist>>
       ELSE /\ ui' = Ui(dir, "none")
            /\ sent' = <<>>
            /\ warned' = FALSE
            /\ UNCHANGED <<tool_stock_txn, hist>>
    /\ UNCHANGED <<tool_master, po_header, po_items, telegram_set, sched>>

\* the outcomes of requests.post, which is reached only with token and chat id set
PostOutcomes == IF telegram_set THEN BOOLEAN ELSE {TRUE}

SaveOUT == \E tool \in get_master, qty \in Qtys, store_ok \in BOOLEAN, post_ok \in PostOutcomes :
              SaveMovement("OUT", tool, qty, store_ok, post_ok)

SaveIN == \E tool \in get_master, qty \in Qtys, store_ok \in BOOLEAN, post_ok \in PostOutcomes :
              SaveMovement("IN", tool, qty, store_ok, post_ok)

\* ---------------------------------------------------------------- PO management
\* "Save PO": only an empty number is refused; the row is inserted as typed
CreatePO(po_number, store_ok) ==
    /\ scheduler_started # {}
    /\ IF po_number # ""
       THEN IF store_ok
            THEN /\ Len(po_header) < MaxPO
                 /\ po_header' = Append(po_header, [po_number |-> po_number, status |-> "Approved"])
                 /\ ui' = Ui("CreatePO", "success")
            ELSE /\ ui' = Ui("CreatePO", "exception")
                 /\ UNCHANGED po_header
       ELSE /\ ui' = Ui("CreatePO", "none")
            /\ UNCHANGED po_header
    /\ sent' = <<>>
    /\ warned' = FALSE
    /\ UNCHANGED <<tool_master, tool_stock_txn, po_items, telegram_set, sched, hist>>

SavePO == \E po_number \in PoNumbers, store_ok \in BOOLEAN : CreatePO(po_number, store_ok)

\* the lines of header h
ItemsOf(h) == {i \in DOMAIN po_items : po_items[i].po_id = h}

\* header h has lines and all of them are Received
FullyReceived(h) ==
    /\ ItemsOf(h) # {}
    /\ \A i \in ItemsOf(h) : po_items[i].status = "Received"

\* a list of headers that leaves out the POs whose lines are all Received
ApprovedPOs_open ==
    {h \in DOMAIN po_header : po_header[h].status = "Approved" /\ ~FullyReceived(h)}

\* the headers offered by "Add Item": status Approved
ApprovedPOs == {h \in DOMAIN po_header : po_header[h].status = "Approved"}

\* poh[poh["po_number"] == po_select]["id"].iloc[0]: the first header with that number
PoIdOf(po_select) ==
    CHOOSE h \in ApprovedPOs :
        /\ po_header[h].po_number = po_select
        /\ \A g \in ApprovedPOs : po_header[g].po_number = po_select => h <= g

\* a po_items row as stored: the columns the insert leaves out take their defaults
po_items_row(po_id, tool, qty) ==
    [po_id |-> po_id, tool_code |-> tool, request_qty |-> qty,
     received_qty |-> 0, status |-> "Pending"]

\* "Save Item": the row is inserted with the quantity as typed
AddItem(po_select, tool, qty, store_ok) ==
    /\ scheduler_started # {}
    /\ ApprovedPOs # {}
    /\ po_select \in {po_header[h].po_number : h \in ApprovedPOs}
    /\ tool \in get_master
    /\ IF store_ok
       THEN /\ Len(po_items) < MaxItems
            /\ po_items' = Append(po_items, po_items_row(PoIdOf(po_select), tool, qty))
            /\ ui' = Ui("AddItem", "success")
       ELSE /\ ui' = Ui("AddItem", "exception")
            /\ UNCHANGED po_items
    /\ sent' = <<>>
    /\ warned' = FALSE
    /\ UNCHANGED <<tool_master, tool_stock_txn, po_header, telegram_set, sched, hist>>

SaveItem == \E po_select \in PoNumbers, tool \in get_master, qty \in RequestQtys, store_ok \in BOOLEAN :
               AddItem(po_select, tool, qty, store_ok)

\* stored procedure receive_po_item: the receipt it accepts
receive_po_item_accepts(p_item_id, p_qty) ==
    /\ p_item_id \in DOMAIN po_items
    /\ p_qty > 0
    /\ po_items[p_item_id].received_qty + p_qty <= po_items[p_item_id].request_qty

\* stored procedure receive_po_item: item update and ledger append in one transaction
receive_po_item(p_item_id, p_qty) ==
    LET item == po_items[p_item_id]
        got  == item.received_qty + p_qty
    IN  /\ po_items' = [po_items EXCEPT ![p_item_id] =
                          [item EXCEPT !.received_qty = got,
                                       !.status = ItemStatus(got, item.request_qty)]]
        /\ tool_stock_txn' = Append(tool_stock_txn,
                                [tool_code |-> item.tool_code, direction |-> "IN",
                                 qty |-> p_qty, po_item_id |-> p_item_id])

\* the items listed by "Receive PO": item_status = Pending
ReceiveList == v_po_tracking("Pending")

\* "if po_item_id and qty > 0"
ReceiveValid(po_item_id, qty) == po_item_id # 0 /\ qty > 0

\* a handler that swallows the error of the rpc call and reports success
ReceivePO_swallow(po_item_id, qty, store_ok) ==
    /\ scheduler_started # {}
    /\ ReceiveList # {}
    /\ IF ReceiveValid(po_item_id, qty)
       THEN IF store_ok /\ receive_po_item_accepts(po_item_id, qty)
            THEN /\ Len(tool_stock_txn) < MaxTxn
                 /\ receive_po_item(po_item_id, qty)
                 /\ in_total' = [in_total EXCEPT ![po_items[po_item_id].tool_code] = @ + qty]
                 /\ ui' = Ui("ReceivePO", "success")
            ELSE /\ ui' = Ui("ReceivePO", "success")
                 /\ UNCHANGED <<po_items, tool_stock_txn, in_total>>
       ELSE /\ ui' = Ui("ReceivePO", "none")
            /\ UNCHANGED <<po_items, tool_stock_txn, in_total>>
    /\ sent' = <<>>
    /\ warned' = FALSE
    /\ UNCHANGED <<tool_master, po_header, telegram_set, sched, out_total>>

\* a handler that records the receipt in the ledger itself and then calls the rpc
ReceivePO_twice(po_item_id, qty, store_ok) ==
    /\ scheduler_started # {}
    /\ ReceiveList # {}
    /\ IF ReceiveValid(po_item_id, qty)
       THEN IF store_ok /\ receive_po_item_accepts(po_item_id, qty)
            THEN LET item == po_items[po_item_id]
                     got  == item.received_qty + qty
                 IN  /\ Len(tool_stock_txn) + 1 < MaxTxn
                     /\ po_items' = [po_items EXCEPT ![po_item_id] =
                                       [item EXCEPT !.received_qty = got,
                                                    !.status = ItemStatus(got, item.request_qty)]]
                     /\ tool_stock_txn' =
                            tool_stock_txn \o
                               << [tool_code |-> item.tool_code, direction |-> "IN",
                                   qty |-> qty, po_item_id |-> po_item_id],
                                  [tool_code |-> item.tool_code, direction |-> "IN",
                                   qty |-> qty, po_item_id |-> po_item_id] >>
                     /\ in_total' = [in_total EXCEPT ![item.tool_code] = @ + qty + qty]
                     /\ ui' = Ui("ReceivePO", "success")
            ELSE /\ ui' = Ui("ReceivePO", "exception")
                 /\ UNCHANGED <<po_items, tool_stock_txn, in_total>>
       ELSE /\ ui' = Ui("ReceivePO", "none")
            /\ UNCHANGED <<po_items, tool_stock_txn, in_total>>
    /\ sent' = <<>>
    /\ warned' = FALSE
    /\ UNCHANGED <<tool_master, po_header, telegram_set, sched, out_total>>

\* "Receive Item": one rpc call; an error of the call propagates
ReceivePO(po_item_id, qty, store_ok) ==
    /\ scheduler_started # {}
    /\ ReceiveList # {}
    /\ IF ReceiveValid(po_item_id, qty)
       THEN IF store_ok /\ receive_po_item_accepts(po_item_id, qty)
            THEN /\ Len(tool_stock_txn) < MaxTxn
                 /\ receive_po_item(po_item_id, qty)
                 /\ in_total' = [in_total EXCEPT ![po_items[po_item_id].tool_code] = @ + qty]
                 /\ ui' = Ui("ReceivePO", "success")
            ELSE /\ ui' = Ui("ReceivePO", "exception")
                 /\ UNCHANGED <<po_items, tool_stock_txn, in_total>>
       ELSE /\ ui' = Ui("ReceivePO", "none")
            /\ UNCHANGED <<po_items, tool_stock_txn, in_total>>
    /\ sent' = <<>>
    /\ warned' = FALSE
    /\ UNCHANGED <<tool_master, po_header, telegram_set, sched, out_total>>

ReceiveItem == \E po_item_id \in 0..(Len(po_items) + 1), qty \in Qtys, store_ok \in BOOLEAN :
                  ReceivePO(po_item_id, qty, store_ok)

\* ---------------------------------------------------------------- daily report and scheduler
RECURSIVE SortedSeq(_)
SortedSeq(S) ==
    IF S = {} THEN <<>>
    ELSE LET m == CHOOSE x \in S : \A y \in S : x <= y
         IN  <<m>> \o SortedSeq(S \ {m})

\* the rows of the balance view, whether below minimum or not
below_min_df_all == SortedSeq(v_tool_balance_with_po)

\* the rows of the balance view with is_below_min = True, in the view's order
below_min_df == SortedSeq({t \in v_tool_balance_with_po : is_below_min(t)})

\* a daily report that is posted only when some tool is below its minimum
send_daily_only_below(store_ok) ==
    IF ~store_ok THEN <<>>
    ELSE IF v_tool_balance_with_po = {} THEN <<>>
    ELSE IF below_min_df = <<>> THEN <<>>
    ELSE send_telegram(Msg("daily", NoTool, 0, below_min_df))

\* send_daily_below_min: the messages it posts.  A failed query and an empty view return silently.
send_daily_below_min(store_ok) ==
    IF ~store_ok THEN <<>>
    ELSE IF v_tool_balance_with_po = {} THEN <<>>
    ELSE send_telegram(Msg("daily", NoTool, 0, below_min_df))

\* schedule.every().day.at("08:00"): the next 08:00 after time t
NextRunAfter(t) == IF t % 2 = 0 THEN t + 1 ELSE t + 2

\* lines 104-107: the first script run of a session starts a scheduler thread,
\* and run_scheduler registers one more job with the module-wide scheduler
StartScheduler(s) ==
    IF s \in scheduler_started
    THEN UNCHANGED <<scheduler_started, jobs>>
    ELSE /\ scheduler_started' = scheduler_started \cup {s}
         /\ jobs' = Append(jobs, NextRunAfter(now))

\* the "Below MIN" metric: the rows of the balance view with is_below_min = True
below_min == Cardinality({t \in v_tool_balance_with_po : is_below_min(t)})

\* a dashboard whose metric is taken from the balances before the latest movement
Dashboard_stale(s, store_ok) ==
    /\ StartScheduler(s)
    /\ ui' = IF ~store_ok THEN Ui("Dashboard", "error")
             ELSE IF v_tool_balance_with_po = {} THEN Ui("Dashboard", "empty")
             ELSE [Ui("Dashboard", "table") EXCEPT !.below_min =
                      Cardinality({t \in v_tool_balance_with_po :
                          OnHandOf(SubSeq(tool_stock_txn, 1, Len(tool_stock_txn) - 1), t)
                             < tool_master[t].min_stock})]
    /\ sent' = <<>>
    /\ warned' = FALSE
    /\ UNCHANGED <<store, telegram_set, now, scans_run, scanning, hist>>

\* a script run with the menu on "Dashboard" (the menu's default): it queries the
\* balance view and only reads; a failed query shows an error, an empty view nothing
Dashboard(s, store_ok) ==
    /\ StartScheduler(s)
    /\ ui' = IF ~store_ok THEN Ui("Dashboard", "error")
             ELSE IF v_tool_balance_with_po = {} THEN Ui("Dashboard", "empty")
             ELSE [Ui("Dashboard", "table") EXCEPT !.below_min = below_min]
    /\ sent' = <<>>
    /\ warned' = FALSE
    /\ UNCHANGED <<store, telegram_set, now, scans_run, scanning, hist>>

LoadDashboard == \E s \in Sessions, store_ok \in BOOLEAN : Dashboard(s, store_ok)

\* a script run with the menu on "Transactions": one select on tool_stock_txn, whose
\* error is not caught; the rows are shown when there are any
Transactions(store_ok) ==
    /\ scheduler_started # {}
    /\ ui' = Ui("Transactions", IF ~store_ok THEN "exception"
                                ELSE IF tool_stock_txn = <<>> THEN "empty"
                                ELSE "table")
    /\ sent' = <<>>
    /\ warned' = FALSE
    /\ UNCHANGED <<store, telegram_set, sched, hist>>

ViewTransactions == \E store_ok \in BOOLEAN : Transactions(store_ok)

\* the clock moves on
Tick ==
    /\ now < MaxTime
    /\ now' = now + 1
    /\ UNCHANGED <<store, telegram_set, scheduler_started, jobs, scans_run, scanning,
                   ui, sent, warned, hist>>

\* run_pending in one of the scheduler threads: a due job runs and is scheduled for the
\* next day, no other step falling between the job's query and its report
run_pending(j, store_ok, post_ok) ==
    /\ j \in DOMAIN jobs
    /\ jobs[j] <= now
    /\ \A r \in scanning : r.job # j
    /\ sent' = send_daily_below_min(store_ok)
    /\ warned' = (sent' # <<>> /\ ~post_ok)
    /\ scans_run' = [scans_run EXCEPT ![jobs[j]] = @ + 1]
    /\ jobs' = [jobs EXCEPT ![j] = NextRunAfter(now)]
    /\ ui' = Ui("scheduler", IF ~store_ok THEN "query failed"
                             ELSE IF v_tool_balance_with_po = {} THEN "empty"
                             ELSE "reported")
    /\ UNCHANGED <<store, telegram_set, scheduler_started, now, scanning, hist>>

RunPending == \E j \in DOMAIN jobs, store_ok \in BOOLEAN, post_ok \in PostOutcomes :
                 run_pending(j, store_ok, post_ok)

\* The same job in two steps, so that the script runs of the sessions can fall between
\* them.  First half (lines 64-73): the due job queries the balance view and keeps the
\* rows below minimum.
scan_query(j, store_ok) ==
    /\ j \in DOMAIN jobs
    /\ jobs[j] <= now
    /\ \A r \in scanning : r.job # j
    /\ scanning' = scanning \cup
          {[job |-> j,
            shown |-> IF ~store_ok THEN "query failed"
                      ELSE IF v_tool_balance_with_po = {} THEN "empty"
                      ELSE "reported",
            below |-> IF store_ok THEN below_min_df ELSE <<>>]}
    /\ UNCHANGED <<store, telegram_set, scheduler_started, jobs, now, scans_run,
                   ui, sent, warned, hist>>

BeginScan == \E j \in DOMAIN jobs, store_ok \in BOOLEAN : scan_query(j, store_ok)

\* Second half (lines 74-86 and the scheduler's rescheduling): the report is composed from
\* the rows kept and sent, and the job is scheduled for the next day.
scan_send(r, post_ok) ==
    /\ r \in scanning
    /\ sent' = IF r.shown = "reported"
               THEN send_telegram(Msg("daily", NoTool, 0, r.below)) ELSE <<>>
    /\ warned' = (sent' # <<>> /\ ~post_ok)
    /\ scans_run' = [scans_run EXCEPT ![jobs[r.job]] = @ + 1]
    /\ jobs' = [jobs EXCEPT ![r.job] = NextRunAfter(now)]
    /\ ui' = Ui("scheduler", r.shown)
    /\ scanning' = scanning \ {r}
    /\ UNCHANGED <<store, telegram_set, scheduler_started, now, hist>>

EndScan == \E r \in scanning, post_ok \in PostOutcomes : scan_send(r, post_ok)

\* ---------------------------------------------------------------- specifications
\* the whole application
Next == LoadDashboard \/ ViewTransactions \/ SaveOUT \/ SaveIN \/ SavePO \/ SaveItem
           \/ ReceiveItem \/ Tick \/ RunPending \/ BeginScan \/ EndScan

Spec == Init /\ [][Next]_vars

\* stock movements, the notifications and the daily report: one session, two active
\* tools or none
InitStock == Init /\ tool_master \in {CatalogNone, CatalogTwo}

NextStock == (\E store_ok \in BOOLEAN : Dashboard(1, store_ok))
                \/ SaveOUT \/ SaveIN \/ Tick \/ RunPending

SpecStock == InitStock /\ [][NextStock]_vars

\* purchase orders: one session, one active tool, Telegram not configured
InitPO == Init /\ tool_master = CatalogOne /\ ~telegram_set

NextPO == Dashboard(1, TRUE) \/ SavePO \/ SaveItem \/ ReceiveItem

SpecPO == InitPO /\ [][NextPO]_vars

\* receipts against PO lines with manual IN movements of one unit in between,
\* the store failing in "Receive Item" only
NextReceipt == Dashboard(1, TRUE)
                  \/ CreatePO("PO-1", TRUE)
                  \/ (\E qty \in RequestQtys : AddItem("PO-1", 1, qty, TRUE))
                  \/ ReceiveItem
                  \/ SaveMovement("IN", 1, 1, TRUE, TRUE)

SpecReceipt == InitPO /\ [][NextReceipt]_vars

\* every operation that reads or writes the ledger: one session, one active tool,
\* Telegram not configured, movements of the largest quantity, PO lines of the largest
\* request, the store failing in "Receive Item" only
NextLedger == Dashboard(1, TRUE)
                 \/ Transactions(TRUE)
                 \/ (\E dir \in {"IN", "OUT"} : SaveMovement(dir, 1, MaxQty, TRUE, TRUE))
                 \/ CreatePO("PO-1", TRUE)
                 \/ AddItem("PO-1", 1, MaxRequest, TRUE)
                 \/ ReceiveItem
                 \/ Tick
                 \/ RunPending

SpecLedger == InitPO /\ [][NextLedger]_vars

\* the daily scan in its two halves next to the writers of the tables: one session, one
\* active tool, Telegram not configured, the store failing in the scan and the receipts only
NextConc == Dashboard(1, TRUE)
               \/ (\E dir \in {"IN", "OUT"} : SaveMovement(dir, 1, MaxQty, TRUE, TRUE))
               \/ CreatePO("PO-1", TRUE)
               \/ AddItem("PO-1", 1, MaxRequest, TRUE)
               \/ ReceiveItem
               \/ Tick
               \/ BeginScan
               \/ EndScan

SpecConc == InitPO /\ [][NextConc]_vars

\* the sessions and the scheduler threads
InitSched == Init /\ tool_master = CatalogTwo

NextSched == LoadDashboard \/ Tick \/ RunPending

SpecSched == InitSched /\ [][NextSched]_vars

\* ---------------------------------------------------------------- properties
ItemIds == 0..(MaxItems + 1)

\* the quantity the ledger holds as received against PO line i
RECURSIVE ReceivedInLedger(_, _)
ReceivedInLedger(txns, i) ==
    IF txns = <<>> THEN 0
    ELSE (IF Head(txns).po_item_id = i /\ Head(txns).direction = "IN"
          THEN Head(txns).qty ELSE 0) + ReceivedInLedger(Tail(txns), i)

\* the ledger with rows k and k+1 exchanged
Swap(txns, k) ==
    [n \in DOMAIN txns |-> IF n = k THEN txns[k + 1] ELSE IF n = k + 1 THEN txns[k] ELSE txns[n]]

\* the tool of the movement recorded last
LastTool == tool_stock_txn[Len(tool_stock_txn)].tool_code

\* a "Receive Item" call that would take a line's received_qty above its request_qty
OverReceiptStep ==
    /\ ui'.op = "ReceivePO"
    /\ \E id \in DOMAIN po_items, q \in Qtys, ok \in BOOLEAN :
          /\ po_items[id].received_qty + q > po_items[id].request_qty
          /\ ReceivePO(id, q, ok)

C2_OnHandIsInMinusOut ==
    \A t \in Tools :
        /\ on_hand(t) = in_total[t] - out_total[t]
        /\ \A k \in 1..(Len(tool_stock_txn) - 1) : OnHandOf(Swap(tool_stock_txn, k), t) = on_hand(t)

\* C2 witness: an OUT recorded before an IN of the same tool, and a row of another tool
C2_Witness ==
    /\ Len(tool_stock_txn) >= 2
    /\ tool_stock_txn[1].direction = "OUT"
    /\ tool_stock_txn[2].direction = "IN"
    /\ tool_stock_txn[1].tool_code = tool_stock_txn[2].tool_code
    /\ ui = Ui("IN", "success")

\* a "Receive Item" call
ReceiveStep ==
    /\ ui'.op = "ReceivePO"
    /\ \E id \in ItemIds, q \in Qtys, ok \in BOOLEAN : ReceivePO(id, q, ok)

\* one line's received_qty and its tool's on_hand go up by the same q > 0, by one ledger row
ReceivedAndStocked ==
    \E id \in DOMAIN po_items, q \in 1..MaxQty :
        /\ DOMAIN po_items' = DOMAIN po_items
        /\ po_items'[id].received_qty = po_items[id].received_qty + q
        /\ \A i \in DOMAIN po_items : i # id => po_items'[i] = po_items[i]
        /\ Len(tool_stock_txn') = Len(tool_stock_txn) + 1
        /\ \A t \in Tools :
             OnHandOf(tool_stock_txn', t)
                = on_hand(t) + (IF t = po_items[id].tool_code THEN q ELSE 0)

\* C3: after every step each PO line's received_qty is the sum of the IN ledger rows that
\* reference it; a successful "Receive Item" of q raises the line's received_qty and the
\* tool's on_hand by q in that step, and one without success changes neither table.
C3_ReceiptAllOrNothing ==
    [][ /\ \A i \in DOMAIN po_items' :
             po_items'[i].received_qty = ReceivedInLedger(tool_stock_txn', i)
        /\ \/ IF ui'.shown = "success"
              THEN ReceivedAndStocked
              ELSE UNCHANGED <<po_items, tool_stock_txn>>
           \/ ~ReceiveStep ]_vars

\* C3 witness: a partial receipt next to a manual IN of the same tool
C3_Witness ==
    /\ ui = Ui("ReceivePO", "success")
    /\ \E i \in DOMAIN po_items :
         /\ po_items[i].status = "Partially Received"
         /\ on_hand(po_items[i].tool_code) > po_items[i].received_qty

\* C4: every PO line's status is the function of (received, requested), and a line
\* that has received nothing is Pending.
C4_StatusIsFunction ==
    \A i \in DOMAIN po_items :
        /\ po_items[i].status = ItemStatus(po_items[i].received_qty, po_items[i].request_qty)
        /\ po_items[i].received_qty = 0 => po_items[i].status = "Pending"

\* C5: every stored PO line has request_qty > 0, an active tool of the master catalog
\* and a PO that is Approved.
C5_ItemsAreValid ==
    \A i \in DOMAIN po_items :
        /\ po_items[i].request_qty > 0
        /\ po_items[i].tool_code \in get_master
        /\ po_items[i].po_id \in ApprovedPOs

\* a "Save OUT"/"Save IN" with a quantity that is not positive or a tool that is not active
InvalidMovementStep ==
    /\ ui'.op \in {"IN", "OUT"}
    /\ \E dir \in {"IN", "OUT"}, t \in Tools \cup {NoTool}, q \in Qtys, ok, p \in BOOLEAN :
          /\ ~(q > 0 /\ t \in get_master)
          /\ SaveMovement(dir, t, q, ok, p)

\* C6: after every step each ledger row has qty > 0, direction IN or OUT and the code of
\* an active tool; a "Save OUT"/"Save IN" with an invalid quantity or tool shows no
\* success and leaves the ledger as it was.
C6_MovementValidated ==
    [][ /\ \A k \in DOMAIN tool_stock_txn' :
             /\ tool_stock_txn'[k].qty > 0
             /\ tool_stock_txn'[k].direction \in {"IN", "OUT"}
             /\ tool_stock_txn'[k].tool_code \in get_master
        /\ \/ (ui'.shown # "success" /\ UNCHANGED tool_stock_txn)
           \/ ~InvalidMovementStep ]_vars

\* C6 witness: a movement on record and a quantity-0 movement just refused
C6_Witness ==
    /\ Len(tool_stock_txn) >= 1
    /\ ui = Ui("OUT", "none")

C8_OpenItemsListed ==
    ReceiveList = {i \in DOMAIN po_items : po_items[i].status # "Received"}

\* C9: no two PO headers share a number, no header has an empty number, and every
\* header is Approved.
C9_PoNumbersUnique ==
    /\ \A g, h \in DOMAIN po_header : g # h => po_header[g].po_number # po_header[h].po_number
    /\ \A h \in DOMAIN po_header : po_header[h].po_number # "" /\ po_header[h].status = "Approved"

\* C10: send_daily_below_min runs at most once for each 08:00 trigger.
C10_OneScanPerDay ==
    \A k \in DOMAIN scans_run : scans_run[k] <= 1

ShortByHistory == {t \in Tools : in_total[t] - out_total[t] < tool_master[t].min_stock}

\* C12: in every reachable state a tool's is_below_min is true exactly when its recorded
\* IN minus recorded OUT is less than its min_stock, and false when the two are equal;
\* the "Below MIN" metric a dashboard shows counts exactly the active tools that are short
\* by the ledger as it is then, and a posted daily report lists no tool that is not short
\* by the ledger as it is then.
C12_BelowMinFromCurrentLedger ==
    /\ \A t \in Tools :
          /\ is_below_min(t) <=> t \in ShortByHistory
          /\ in_total[t] - out_total[t] = tool_master[t].min_stock => ~is_below_min(t)
    /\ (ui.op = "Dashboard" /\ ui.shown = "table")
          => ui.below_min = Cardinality(get_master \cap ShortByHistory)
    /\ (ui.op = "scheduler" /\ sent # <<>>)
          => \A i \in DOMAIN sent[1].below : sent[1].below[i] \in ShortByHistory

\* C12 witness: a tool taken below its minimum and brought back to exactly its minimum
\* by the latest movement, and a dashboard that then counts only the other tool
C12_Witness ==
    /\ ui.op = "Dashboard"
    /\ ui.shown = "table"
    /\ ui.below_min = 1
    /\ Len(tool_stock_txn) = 2
    /\ tool_stock_txn[1].direction = "OUT"
    /\ tool_stock_txn[2].direction = "IN"
    /\ tool_stock_txn[1].tool_code = tool_stock_txn[2].tool_code
    /\ on_hand(tool_stock_txn[2].tool_code) = tool_master[tool_stock_txn[2].tool_code].min_stock

\* the step appended one row to the ledger and kept the rows it had
AppendedOne ==
    /\ Len(tool_stock_txn') = Len(tool_stock_txn) + 1
    /\ SubSeq(tool_stock_txn', 1, Len(tool_stock_txn)) = tool_stock_txn

\* C13: a "Save OUT"/"Save IN" that appended its row shows success whether or not the
\* notification could be delivered; when the delivery failed ("Telegram send failed"
\* shown) the step has appended the row of the movement it notified of, shows success
\* and does not end in an exception; and a daily scan whose report could not be
\* delivered ends as a scan that reported.  (A step that leaves the clock alone is a
\* script run or a scheduler job; the clock's own step leaves ui and warned as they were.)
C13_AlertFailureSwallowed ==
    [][ /\ (ui'.op \in {"IN", "OUT"} /\ Len(tool_stock_txn') # Len(tool_stock_txn))
             => (ui'.shown = "success" /\ AppendedOne)
        /\ (ui'.op \in {"IN", "OUT"} /\ warned' /\ now' = now)
             => /\ ui'.shown = "success"
                /\ AppendedOne
                /\ sent' = <<Msg(ui'.op, tool_stock_txn'[Len(tool_stock_txn')].tool_code,
                                 tool_stock_txn'[Len(tool_stock_txn')].qty, <<>>)>>
                /\ tool_stock_txn'[Len(tool_stock_txn')].direction = ui'.op
        /\ (ui'.op = "scheduler" /\ warned' /\ now' = now)
             => (ui'.shown = "reported" /\ UNCHANGED tool_stock_txn) ]_vars

\* C13 witness: an OUT on record and shown as saved although its notification failed
C13_Witness ==
    /\ ui = Ui("OUT", "success")
    /\ warned
    /\ sent # <<>>
    /\ tool_stock_txn # <<>>
    /\ tool_stock_txn[Len(tool_stock_txn)].direction = "OUT"

\* C14: every step leaves the rows the ledger had as they were and where they were: the
\* ledger after the step is the ledger before it, or that ledger with rows added at its
\* end.  The steps are "Save OUT", "Save IN", "Save PO", "Save Item", "Receive Item", the
\* daily scan, the dashboard, the transactions page and the clock.
C14_LedgerAppendOnly ==
    [][ /\ Len(tool_stock_txn') >= Len(tool_stock_txn)
        /\ SubSeq(tool_stock_txn', 1, Len(tool_stock_txn)) = tool_stock_txn ]_vars

\* C14 witness: the transactions page showing a ledger of a manual OUT followed by a
\* receipt against a PO line
C14_Witness ==
    /\ ui = Ui("Transactions", "table")
    /\ Len(tool_stock_txn) = 2
    /\ tool_stock_txn[1].direction = "OUT"
    /\ tool_stock_txn[1].po_item_id = NoItem
    /\ tool_stock_txn[2].po_item_id # NoItem

\* C15: a "Save OUT"/"Save IN" that shows success or hands a notification to Telegram has
\* appended the row of that movement in the same step; one that ends in the exception
\* of the store call has shown no success, posted nothing and left the ledger as it was.
C15_SuccessOnlyAfterInsert ==
    [][ (ui'.op \in {"IN", "OUT"} /\ now' = now) =>
          /\ (ui'.shown = "success" \/ sent' # <<>> \/ warned')
                => /\ AppendedOne
                   /\ tool_stock_txn'[Len(tool_stock_txn')].direction = ui'.op
                   /\ tool_stock_txn'[Len(tool_stock_txn')].po_item_id = NoItem
          /\ ui'.shown = "exception"
                => (sent' = <<>> /\ ~warned' /\ UNCHANGED <<tool_stock_txn, hist>>) ]_vars

\* C15 witness: a "Save IN" whose insert failed, with Telegram configured and an
\* earlier movement on record
C15_Witness ==
    /\ ui = Ui("IN", "exception")
    /\ telegram_set
    /\ sent = <<>>
    /\ Len(tool_stock_txn) = 1

\* a "Save OUT" of quantity q of tool t that is stored and shown as saved
StoredOut(t, q) ==
    /\ SaveMovement("OUT", t, q, TRUE, TRUE)
    /\ ui'.shown = "success"
    /\ tool_stock_txn' = Append(tool_stock_txn, Payload(t, "OUT", q))

\* a "Save OUT" of the tool can be taken and stored
MovementOpen(t) == ENABLED StoredOut(t, MaxQty)

\* C16: a step of the daily scan, the query or the report, leaves tool_stock_txn,
\* tool_master, po_header and po_items as they were; and while a scan has queried and not
\* yet reported, a "Save OUT" of any active tool can be stored at once, as long as a
\* session is open and the ledger has room.
C16_ScanOnlyReads ==
    /\ [](scanning # {} =>
            \A t \in get_master :
               (scheduler_started # {} /\ Len(tool_stock_txn) < MaxTxn) => MovementOpen(t))
    /\ [][(scanning' # scanning \/ scans_run' # scans_run) => UNCHANGED store]_vars

\* C16 witness: an OUT stored between a scan's query and its report, with a PO line on
\* record
C16_Witness ==
    /\ scanning # {}
    /\ ui = Ui("OUT", "success")
    /\ tool_stock_txn # <<>>
    /\ po_items # <<>>

\* "Save Item" can store a further line for the number of header h
AddItemOpen(h) ==
    \E t \in get_master : ENABLED AddItem(po_header[h].po_number, t, MaxRequest, TRUE)

\* C17: every PO header is Approved in every reachable state and no step changes a
\* header that exists; a PO whose lines are all Received is still offered by "Add Item",
\* and a further line can be stored for it as long as po_items has room.
C17_HeaderStaysApproved ==
    /\ [](/\ \A h \in DOMAIN po_header : po_header[h].status = "Approved"
          /\ \A h \in DOMAIN po_header :
                (FullyReceived(h) /\ Len(po_items) < MaxItems)
                   => (h \in ApprovedPOs /\ AddItemOpen(h)))
    /\ [][\A h \in DOMAIN po_header :
              h \in DOMAIN po_header' /\ po_header'[h] = po_header[h]]_vars

\* C17 witness: a line stored for a PO whose only line had been received in full
C17_Witness ==
    /\ ui = Ui("AddItem", "success")
    /\ Len(po_items) = 2
    /\ po_items[1].status = "Received"
    /\ po_items[1].received_qty >= 1
    /\ po_items[2].po_id = po_items[1].po_id
    /\ po_header[po_items[1].po_id].status = "Approved"

\* C18: whatever the balances are, a "Save OUT" of any active tool with any quantity
\* above 0 can be stored as long as a session is open and the ledger has room; and a
\* "Save OUT" that shows success has appended its row and taken its quantity off the
\* tool's on_hand, below 0 where the quantity was larger than the stock.
C18_OutWhateverBalance ==
    /\ [](\A t \in get_master, q \in 1..MaxQty :
            (scheduler_started # {} /\ Len(tool_stock_txn) < MaxTxn)
               => ENABLED StoredOut(t, q))
    /\ [][(ui'.op = "OUT" /\ ui'.shown = "success" /\ now' = now) =>
            /\ AppendedOne
            /\ LET row == tool_stock_txn'[Len(tool_stock_txn')]
               IN  /\ row.direction = "OUT"
                   /\ row.qty > 0
                   /\ OnHandOf(tool_stock_txn', row.tool_code)
                         = on_hand(row.tool_code) - row.qty]_vars

\* C18 witness: an OUT stored for a tool that had nothing on hand
C18_Witness ==
    /\ ui = Ui("OUT", "success")
    /\ on_hand(LastTool) < 0
    /\ in_total[LastTool] = 0
====
